---- MODULE Spec2Model ----
(***************************************************************************)
(* The audio session manager (src/src/services/audioService.ts) and the    *)
(* chat hook that drives it (src/src/hooks/useAudioChat.ts).               *)
(*                                                                         *)
(* A "task" is one asynchronous execution: a startListening() call of the  *)
(* hook (permission query, then initializeSession, then startStreaming),   *)
(* one initializeSession() called on the exported audioService directly,   *)
(* or one initializeSession() started by handleConnectionFailure.  Every   *)
(* task acquires at most one media stream, one peer connection, one data   *)
(* channel and one audio element, so these objects carry the task's id;    *)
(* 0 is null.  tpc is the await at which the task is suspended.  Code that *)
(* runs between two awaits is one action (JavaScript runs it to            *)
(* completion); a continuation that follows by microtasks only (the hook's *)
(* code after `await initializeSession()`) belongs to the same action.     *)
(* A stopped stream, a closed connection and a closed data channel are     *)
(* referenced by nothing that acts on them and do nothing more: they are   *)
(* "none" like an object that was never created, and the id of a task      *)
(* that has ended and whose objects are all "none" is given to a later     *)
(* task.                                                                   *)
(***************************************************************************)
EXTENDS Naturals, FiniteSets, Sequences

\* Bound of the model: the tasks (with their objects) that exist at a time.
MaxTasks == 2

Tasks == 1..MaxTasks

\* Error messages.  ErrPlatform stands for the platform's own error when
\* createOffer, setLocalDescription, fetch, the response body or
\* setRemoteDescription rejects; ErrNull for the TypeError of a call on a
\* null peerConnection.
ErrKey == "OpenAI API key is not configured"
ErrMic == "Failed to access microphone"
ErrHttp == "Failed to establish WebRTC connection"
ErrPlatform == "platform error"
ErrNull == "TypeError"
ErrMaxRetries == "Connection failed after maximum retry attempts"
ErrPermission == "Microphone permission not granted"
ErrNotInit == "Session not initialized"
ErrNoStream == "Audio stream or peer connection not available"
NoError == "null"

VARIABLES
  session,      \* this.session: the current AudioSession record
  owner,        \* the task whose initializeSession created the record that is
                \* this.session (by its entry cleanupSession), else 0
  streamState,  \* per MediaStream: "live", or "none" (no stream, or stopped)
  pcState,      \* per RTCPeerConnection: "open", "failed" (it reported
                \* connectionState 'failed'), or "none" (none, or closed)
  dcState,      \* per RTCDataChannel: "open", "closing" (close() was called,
                \* the 'close' event is pending), or "none" (none, or closed)
  tpc,          \* per task: the await it is suspended at, or "idle"
  kind,         \* per task in progress: who awaits it, "hook" | "direct" |
                \* "retry", else "none"
  callState,    \* the hook's CallState
  apiKey,       \* OPENAI_API_KEY is configured
  out,          \* what the last step let out of the session manager: an error
                \* thrown to the caller, a rejection of the caller's promise,
                \* an unhandled rejection, a dispatched notification; None
                \* when the step returned normally or let nothing out
  retryLog,     \* history (recorded under RetrySpec only): the retries
                \* started since the last user-initiated call
  solo          \* history: the last initializeSession execution, if no other
                \* one was in flight when it began and as long as no other
                \* initializeSession, no disconnect and no
                \* handleConnectionFailure has run since; else 0

vars == <<session, owner, streamState, pcState, dcState, tpc, kind, callState,
          apiKey, out, retryLog, solo>>

svcVars == <<session, owner, streamState, pcState, dcState>>

----
\* What a step lets out.
None == <<>>
Threw(e) == <<"throw", e>>
RejectedWith(e) == <<"reject", e>>
Unhandled(e) == <<"unhandled rejection", e>>
Dispatched(name, detail) == <<"dispatch", name, detail>>

\* The history of retries: off, or one entry per retry started, kept up to
\* one more than maxRetries allows; a user-initiated call starts it again.
Off == <<"off">>
Counted(h, s) ==
  IF h = Off \/ Len(h) > s.maxRetries THEN h ELSE Append(h, "retry")
Recount(h) == IF h = Off THEN h ELSE <<>>

----
\* The session record and its teardown.

FreshSession ==
  [peerConnection |-> 0, dataChannel |-> 0, stream |-> 0, audioElement |-> 0,
   isInitialized |-> FALSE, retryCount |-> 0, maxRetries |-> 3]

\* stopStreaming, on the tracks: every track of the active stream is stopped.
TracksStopped(ss, s) ==
  IF s.stream # 0 THEN [ss EXCEPT ![s.stream] = "none"] ELSE ss

StoppedSessionKeepsFlag(s) == [s EXCEPT !.stream = 0]

\* stopStreaming, on the record.
StoppedSession(s) == [s EXCEPT !.stream = 0, !.isInitialized = FALSE]

\* cleanupSession: dataChannel.close() (the 'close' event is delivered later).
ChannelClosed(ds, s) ==
  IF s.dataChannel # 0 /\ ds[s.dataChannel] = "open"
  THEN [ds EXCEPT ![s.dataChannel] = "closing"] ELSE ds

ConnectionLeftOpen(ps, s) == ps

\* cleanupSession: peerConnection.close().
ConnectionClosed(ps, s) ==
  IF s.peerConnection # 0 THEN [ps EXCEPT ![s.peerConnection] = "none"] ELSE ps

CleanedKeepsCount(s) == [FreshSession EXCEPT !.retryCount = s.retryCount]

\* cleanupSession: this.session is replaced by a new record.
CleanedSession(s) == FreshSession

\* The awaits of initializeSession.  "exchange" is lines 152-173: the awaits
\* of setLocalDescription, of fetch and of the response body, between which
\* the code neither reads nor writes the session.
InFlightPcs == {"getUserMedia", "createOffer", "exchange", "setRemoteDescription"}
InFlight == {i \in Tasks : tpc[i] \in InFlightPcs}

\* The ids a new task can take: no task in progress has it and every object
\* that carried it is released and unreferenced.
Free ==
  {i \in Tasks : /\ tpc[i] = "idle"
                 /\ streamState[i] = "none"
                 /\ pcState[i] = "none"
                 /\ dcState[i] = "none"
                 /\ i \notin {session.stream, session.peerConnection,
                              session.dataChannel, session.audioElement}}
NextTask == CHOOSE i \in Free : \A j \in Free : i <= j

----
\* The hook's state updates.

InitialCallState ==
  [isConnected |-> FALSE, isListening |-> FALSE, error |-> NoError,
   sessionId |-> "null"]

InitFailedKeepsId(cs, e) == [cs EXCEPT !.error = e, !.isConnected = FALSE]

\* initializeCall's catch (lines 61-68).
InitFailedState(cs, e) ==
  [cs EXCEPT !.error = e, !.isConnected = FALSE, !.sessionId = "null"]

\* initializeCall's success (lines 53-58); the identifier's value is not
\* modelled.
ConnectedState(cs) ==
  [cs EXCEPT !.isConnected = TRUE, !.sessionId = "uuid", !.error = NoError]

StartStreamingUnguarded(s) ==
  IF s.stream = 0 \/ s.peerConnection = 0 THEN ErrNoStream ELSE NoError

\* startStreaming (lines 208-216): the error it throws, or NoError.
StartStreamingResult(s) ==
  IF ~s.isInitialized THEN ErrNotInit
  ELSE IF s.stream = 0 \/ s.peerConnection = 0 THEN ErrNoStream
  ELSE NoError

\* startListening after initializeCall returned true (lines 78-90).
ListeningState(cs, s) ==
  IF StartStreamingResult(s) = NoError
  THEN [cs EXCEPT !.isListening = TRUE, !.error = NoError]
  ELSE [cs EXCEPT !.error = StartStreamingResult(s), !.isListening = FALSE]

\* What the caller of kind k does with the error e that initializeSession
\* throws: the hook stores it and lets nothing out, a
\* direct caller gets the rejection, handleConnectionFailure's promise
\* rejects with nobody awaiting it.
CaughtNotStored(cs, k, e) == cs
CaughtState(cs, k, e) == IF k = "hook" THEN InitFailedState(cs, e) ELSE cs
CaughtAndSwallowed(k, e) == None
CaughtOut(k, e) ==
  CASE k = "hook" -> None
    [] k = "direct" -> RejectedWith(e)
    [] OTHER -> Unhandled(e)

----
InitState ==
  /\ session = FreshSession
  /\ owner = 0
  /\ streamState = [i \in Tasks |-> "none"]
  /\ pcState = [i \in Tasks |-> "none"]
  /\ dcState = [i \in Tasks |-> "none"]
  /\ tpc = [i \in Tasks |-> "idle"]
  /\ kind = [i \in Tasks |-> "none"]
  /\ callState = InitialCallState
  /\ apiKey \in BOOLEAN
  /\ out = None
  /\ solo = 0

Init == InitState /\ retryLog = Off

\* initializeSession from its entry to its first await (lines 66-75), run by
\* task i of kind k, with s the record at entry: cleanupSession, the
\* credential check, then getUserMedia is awaited with this.session already
\* evaluated as the target of the assignment.  When the credential is absent
\* the catch block cleans up again and rethrows.
BeginInitialize(i, k, s) ==
  /\ streamState' = TracksStopped(streamState, s)
  /\ dcState' = ChannelClosed(dcState, s)
  /\ session' = CleanedSession(s)
  /\ solo' = IF InFlight = {} THEN i ELSE 0
  /\ IF apiKey
     THEN /\ tpc' = [tpc EXCEPT ![i] = "getUserMedia"]
          /\ kind' = [kind EXCEPT ![i] = k]
          /\ owner' = i
          /\ callState' = callState
          /\ out' = None
     ELSE /\ tpc' = [tpc EXCEPT ![i] = "idle"]
          /\ kind' = [kind EXCEPT ![i] = "none"]
          /\ owner' = 0
          /\ callState' = CaughtState(callState, k, ErrKey)
          /\ out' = CaughtOut(k, ErrKey)

\* The catch block of initializeSession (lines 116-119) in task i with error
\* e, and the caller's handling of the rethrown error.
Fail(i, e) ==
  /\ streamState' = TracksStopped(streamState, session)
  /\ dcState' = ChannelClosed(dcState, session)
  /\ pcState' = ConnectionClosed(pcState, session)
  /\ session' = CleanedSession(session)
  /\ owner' = 0
  /\ tpc' = [tpc EXCEPT ![i] = "idle"]
  /\ kind' = [kind EXCEPT ![i] = "none"]
  /\ callState' = CaughtState(callState, kind[i], e)
  /\ out' = CaughtOut(kind[i], e)
  /\ UNCHANGED <<apiKey, retryLog, solo>>

----
\* The hook's operations (the user's calls).

\* startListening -> initializeCall up to `await checkPermissions()`.
StartListening ==
  /\ Free # {}
  /\ tpc' = [tpc EXCEPT ![NextTask] = "perm"]
  /\ kind' = [kind EXCEPT ![NextTask] = "hook"]
  /\ out' = None
  /\ retryLog' = Recount(retryLog)
  /\ UNCHANGED <<svcVars, callState, apiKey, solo>>

\* The permission query resolves 'granted': initializeSession starts.
PermissionGranted(i) ==
  /\ tpc[i] = "perm"
  /\ BeginInitialize(i, "hook", session)
  /\ pcState' = ConnectionClosed(pcState, session)
  /\ UNCHANGED <<apiKey, retryLog>>

PermissionSkipped(i) ==
  /\ tpc[i] = "perm"
  /\ BeginInitialize(i, "hook", session)
  /\ pcState' = ConnectionClosed(pcState, session)
  /\ UNCHANGED <<apiKey, retryLog>>

\* The permission query resolves with another state, or rejects (then
\* checkPermissions stores its own message first): initializeCall throws and
\* catches 'Microphone permission not granted'.
PermissionRefused(i) ==
  /\ tpc[i] = "perm"
  /\ tpc' = [tpc EXCEPT ![i] = "idle"]
  /\ kind' = [kind EXCEPT ![i] = "none"]
  /\ callState' = InitFailedState(callState, ErrPermission)
  /\ out' = None
  /\ UNCHANGED <<svcVars, apiKey, retryLog, solo>>

\* stopListening: audioService.stopStreaming(), then the state update.
StopListening ==
  /\ streamState' = TracksStopped(streamState, session)
  /\ session' = StoppedSession(session)
  /\ callState' = [callState EXCEPT !.isListening = FALSE, !.error = NoError]
  /\ out' = None
  /\ retryLog' = Recount(retryLog)
  /\ UNCHANGED <<owner, pcState, dcState, tpc, kind, apiKey, solo>>

DisconnectKeepsCallState ==
  /\ streamState' = TracksStopped(streamState, session)
  /\ dcState' = ChannelClosed(dcState, session)
  /\ pcState' = ConnectionClosed(pcState, session)
  /\ session' = CleanedSession(session)
  /\ owner' = 0
  /\ callState' = [callState EXCEPT !.isListening = FALSE]
  /\ out' = None
  /\ retryLog' = Recount(retryLog)
  /\ solo' = 0
  /\ UNCHANGED <<tpc, kind, apiKey>>

\* disconnect: audioService.disconnect() = cleanupSession, then the reset.
Disconnect ==
  /\ streamState' = TracksStopped(streamState, session)
  /\ dcState' = ChannelClosed(dcState, session)
  /\ pcState' = ConnectionClosed(pcState, session)
  /\ session' = CleanedSession(session)
  /\ owner' = 0
  /\ callState' = InitialCallState
  /\ out' = None
  /\ retryLog' = Recount(retryLog)
  /\ solo' = 0
  /\ UNCHANGED <<tpc, kind, apiKey>>

----
\* The session manager's operations called on the exported audioService.

\* initializeSession() up to its first await.
InitializeSession ==
  /\ Free # {}
  /\ BeginInitialize(NextTask, "direct", session)
  /\ pcState' = ConnectionClosed(pcState, session)
  /\ retryLog' = Recount(retryLog)
  /\ UNCHANGED apiKey

\* startStreaming().
StartStreaming ==
  /\ out' = IF StartStreamingResult(session) = NoError
            THEN None ELSE Threw(StartStreamingResult(session))
  /\ retryLog' = Recount(retryLog)
  /\ UNCHANGED <<svcVars, tpc, kind, callState, apiKey, solo>>

\* stopStreaming().
StopStreaming ==
  /\ streamState' = TracksStopped(streamState, session)
  /\ session' = StoppedSession(session)
  /\ out' = None
  /\ retryLog' = Recount(retryLog)
  /\ UNCHANGED <<owner, pcState, dcState, tpc, kind, callState, apiKey, solo>>

\* disconnect().
DisconnectSession ==
  /\ streamState' = TracksStopped(streamState, session)
  /\ dcState' = ChannelClosed(dcState, session)
  /\ pcState' = ConnectionClosed(pcState, session)
  /\ session' = CleanedSession(session)
  /\ owner' = 0
  /\ out' = None
  /\ retryLog' = Recount(retryLog)
  /\ solo' = 0
  /\ UNCHANGED <<tpc, kind, callState, apiKey>>

----
\* The awaited platform calls settle (the environment's steps).

AttachedToCurrent(s, i, current) ==
  [s EXCEPT !.stream = i, !.peerConnection = i, !.audioElement = i,
            !.dataChannel = i]

\* Lines 75-110 on the record s: the captured stream is stored in the record
\* that was this.session before the await (the current one only if current
\* is TRUE), the new connection, audio element and data channel in this.session.
AttachedSession(s, i, current) ==
  [(IF current THEN [s EXCEPT !.stream = i] ELSE s)
     EXCEPT !.peerConnection = i, !.audioElement = i, !.dataChannel = i]

\* getUserMedia resolves in task i: lines 75-110 and createAndSendOffer up to
\* `await createOffer()`.  A data channel is "open" from its creation until
\* close() is called on it or its 'close' event arrives.
CaptureResolved(i) ==
  /\ tpc[i] = "getUserMedia"
  /\ streamState' = [streamState EXCEPT ![i] = "live"]
  /\ pcState' = [pcState EXCEPT ![i] = "open"]
  /\ dcState' = [dcState EXCEPT ![i] = "open"]
  /\ session' = AttachedSession(session, i, owner = i)
  /\ tpc' = [tpc EXCEPT ![i] = "createOffer"]
  /\ out' = None
  /\ UNCHANGED <<owner, kind, callState, apiKey, retryLog, solo>>

\* The error a rejected await raises in initializeSession (setupMediaStream
\* wraps getUserMedia's).
RejectionAt(p) == IF p = "getUserMedia" THEN ErrMic ELSE ErrPlatform

\* The awaited call of task i rejects.
Rejected(i) ==
  /\ tpc[i] \in InFlightPcs
  /\ Fail(i, RejectionAt(tpc[i]))

\* createOffer resolves in task i (line 152): setLocalDescription is called
\* on this.session.peerConnection, which throws when it is null.
OfferResolved(i) ==
  /\ tpc[i] = "createOffer"
  /\ IF session.peerConnection = 0
     THEN Fail(i, ErrNull)
     ELSE /\ tpc' = [tpc EXCEPT ![i] = "exchange"]
          /\ out' = None
          /\ UNCHANGED <<svcVars, kind, callState, apiKey, retryLog, solo>>

\* The HTTP exchange resolves in task i with a 2xx response or another one
\* (lines 166-176): a non-2xx response is thrown as an error; else
\* setRemoteDescription is called on this.session.peerConnection, which
\* throws when it is null.
ExchangeResolved(i, ok) ==
  /\ tpc[i] = "exchange"
  /\ IF ~ok
     THEN Fail(i, ErrHttp)
     ELSE IF session.peerConnection = 0
     THEN Fail(i, ErrNull)
     ELSE /\ tpc' = [tpc EXCEPT ![i] = "setRemoteDescription"]
          /\ out' = None
          /\ UNCHANGED <<svcVars, kind, callState, apiKey, retryLog, solo>>

\* Lines 113-114 on the current record.
InitializedSession(s) == [s EXCEPT !.isInitialized = TRUE, !.retryCount = 0]

\* setRemoteDescription resolves in task i: lines 112-114, then the caller's
\* continuation; for the hook, initializeCall's state update and
\* startListening's startStreaming() call with its state update.
Established(i) ==
  /\ tpc[i] = "setRemoteDescription"
  /\ session' = InitializedSession(session)
  /\ tpc' = [tpc EXCEPT ![i] = "idle"]
  /\ kind' = [kind EXCEPT ![i] = "none"]
  /\ callState' = IF kind[i] = "hook"
                  THEN ListeningState(ConnectedState(callState), session')
                  ELSE callState
  /\ out' = None
  /\ UNCHANGED <<owner, streamState, pcState, dcState, apiKey, retryLog, solo>>

----
\* Events of the connection and of the data channel.

\* handleConnectionFailure's first branch on the record (line 57).
RetryCounted(s) == [s EXCEPT !.retryCount = @ + 1]

\* Connection j reports connectionState 'failed' (lines 46-64):
\* handleConnectionFailure either counts a retry and starts initializeSession
\* (a new task), or cleans up and throws; its promise is awaited by nobody.
ConnectionFailed(j) ==
  /\ pcState[j] = "open"
  /\ IF session.retryCount < session.maxRetries
     THEN /\ Free # {}
          /\ BeginInitialize(NextTask, "retry", RetryCounted(session))
          /\ pcState' = [ConnectionClosed(pcState, session)
                           EXCEPT ![j] = IF @ = "none" THEN @ ELSE "failed"]
          /\ retryLog' = Counted(retryLog, session)
     ELSE /\ streamState' = TracksStopped(streamState, session)
          /\ dcState' = ChannelClosed(dcState, session)
          /\ pcState' = [ConnectionClosed(pcState, session)
                           EXCEPT ![j] = IF @ = "none" THEN @ ELSE "failed"]
          /\ session' = CleanedSession(session)
          /\ owner' = 0
          /\ out' = Unhandled(ErrMaxRetries)
          /\ solo' = 0
          /\ UNCHANGED <<tpc, kind, callState, retryLog>>
  /\ UNCHANGED apiKey

\* The 'close' event of data channel j (lines 135-138), after close() or when
\* the remote side closes it.
ChannelCloseEvent(j) ==
  /\ dcState[j] \in {"open", "closing"}
  /\ dcState' = [dcState EXCEPT ![j] = "none"]
  /\ session' = [session EXCEPT !.isInitialized = FALSE]
  /\ out' = None
  /\ UNCHANGED <<owner, streamState, pcState, tpc, kind, callState, apiKey,
                 retryLog, solo>>

\* The 'error' event of data channel j (lines 140-143).
ChannelErrorEvent(j) ==
  /\ dcState[j] = "open"
  /\ session' = [session EXCEPT !.isInitialized = FALSE]
  /\ out' = None
  /\ UNCHANGED <<owner, streamState, pcState, dcState, tpc, kind, callState,
                 apiKey, retryLog, solo>>

----
\* The data channel's messages.

\* The event.data values considered: JSON texts of each payload type, of an
\* unknown type, without a type, of a non-object, and a text that is no JSON.
MsgText == "{\"type\":\"text\",\"text\":\"hello\"}"
MsgTranscription == "{\"type\":\"transcription\",\"text\":\"hi there\"}"
MsgError == "{\"type\":\"error\",\"error\":\"boom\"}"
MsgTextNoText == "{\"type\":\"text\"}"
MsgOther == "{\"type\":\"response.done\",\"text\":\"hello\"}"
MsgNoType == "{\"text\":\"hello\",\"error\":\"boom\"}"
MsgNull == "null"
MsgNumber == "42"
MsgNotJson == "type: text"
Messages == {MsgText, MsgTranscription, MsgError, MsgTextNoText, MsgOther,
             MsgNoType, MsgNull, MsgNumber, MsgNotJson}

Undefined == "undefined"
Value(k, ty, tx, er) == [kind |-> k, type |-> ty, text |-> tx, error |-> er]

\* JSON.parse on these texts: the value, or the SyntaxError it throws.
JSONParse(d) ==
  CASE d = MsgText -> Value("object", "text", "hello", Undefined)
    [] d = MsgTranscription -> Value("object", "transcription", "hi there", Undefined)
    [] d = MsgError -> Value("object", "error", Undefined, "boom")
    [] d = MsgTextNoText -> Value("object", "text", Undefined, Undefined)
    [] d = MsgOther -> Value("object", "response.done", "hello", Undefined)
    [] d = MsgNoType -> Value("object", Undefined, "hello", "boom")
    [] d = MsgNull -> Value("null", Undefined, Undefined, Undefined)
    [] d = MsgNumber -> Value("number", Undefined, Undefined, Undefined)
    [] OTHER -> Value("SyntaxError", Undefined, Undefined, Undefined)

HandledAsAiMessage(d) ==
  LET data == JSONParse(d) IN
  IF data.kind \in {"SyntaxError", "null"} THEN None
  ELSE CASE data.type \in {"text", "transcription"} ->
              Dispatched("ai-message", data.text)
         [] data.type = "error" -> Dispatched("call-error", data.error)
         [] OTHER -> None

\* handleDataChannelMessage (lines 179-198): what it dispatches.  The
\* SyntaxError of JSON.parse and the TypeError of reading null.type are
\* caught and logged.
HandledMessage(d) ==
  LET data == JSONParse(d) IN
  IF data.kind \in {"SyntaxError", "null"} THEN None
  ELSE CASE data.type = "text" -> Dispatched("ai-message", data.text)
         [] data.type = "transcription" -> Dispatched("transcription", data.text)
         [] data.type = "error" -> Dispatched("call-error", data.error)
         [] OTHER -> None

\* The 'message' event of data channel j with data d.
ChannelMessage(j, d) ==
  /\ dcState[j] = "open"
  /\ UNCHANGED <<svcVars, tpc, kind, callState, apiKey, retryLog, solo>>
  /\ out' = HandledMessage(d)

----
\* The platform's steps: awaited calls settle, events are delivered.
Platform ==
  \/ \E i \in Tasks : CaptureResolved(i)
  \/ \E i \in Tasks : Rejected(i)
  \/ \E i \in Tasks : OfferResolved(i)
  \/ \E i \in Tasks, ok \in BOOLEAN : ExchangeResolved(i, ok)
  \/ \E i \in Tasks : Established(i)
  \/ \E j \in Tasks : ConnectionFailed(j)
  \/ \E j \in Tasks : ChannelCloseEvent(j)
  \/ \E j \in Tasks : ChannelErrorEvent(j)

\* The application: the view calls the hook.
Next ==
  \/ StartListening
  \/ \E i \in Tasks : PermissionGranted(i)
  \/ \E i \in Tasks : PermissionRefused(i)
  \/ StopListening
  \/ Disconnect
  \/ Platform

Spec == Init /\ [][Next]_vars

\* The application with the history of retries recorded.
RetryInit == InitState /\ retryLog = <<>>
RetrySpec == RetryInit /\ [][Next]_vars

\* The application while no connection reports 'failed'.
HookNext ==
  \/ StartListening
  \/ \E i \in Tasks : PermissionGranted(i)
  \/ \E i \in Tasks : PermissionRefused(i)
  \/ StopListening
  \/ Disconnect
  \/ \E i \in Tasks : CaptureResolved(i)
  \/ \E i \in Tasks : Rejected(i)
  \/ \E i \in Tasks : OfferResolved(i)
  \/ \E i \in Tasks, ok \in BOOLEAN : ExchangeResolved(i, ok)
  \/ \E i \in Tasks : Established(i)
  \/ \E j \in Tasks : ChannelCloseEvent(j)
  \/ \E j \in Tasks : ChannelErrorEvent(j)

HookSpec == Init /\ [][HookNext]_vars

\* The session manager alone: its operations are called in any order.
SvcNext ==
  \/ InitializeSession
  \/ StartStreaming
  \/ StopStreaming
  \/ DisconnectSession
  \/ Platform

SvcSpec == Init /\ [][SvcNext]_vars

\* The session manager with the messages of its data channels, while
\* sessions are initialized and disconnected, the only failures being those
\* of the HTTP exchange.
MsgNext ==
  \/ InitializeSession
  \/ DisconnectSession
  \/ \E i \in Tasks : CaptureResolved(i)
  \/ \E i \in Tasks : OfferResolved(i)
  \/ \E i \in Tasks, ok \in BOOLEAN : ExchangeResolved(i, ok)
  \/ \E i \in Tasks : Established(i)
  \/ \E j \in Tasks : ChannelCloseEvent(j)
  \/ \E j \in Tasks, d \in Messages : ChannelMessage(j, d)

MsgSpec == Init /\ [][MsgNext]_vars

----
\* Properties of the session manager and the hook.

HandlesNull(s) ==
  s.stream = 0 /\ s.dataChannel = 0 /\ s.peerConnection = 0 /\ s.audioElement = 0

\* C1: with no user-initiated call in between, handleConnectionFailure starts
\* at most maxRetries = 3 automatic retries.
C1_RetriesBounded == Len(retryLog) <= FreshSession.maxRetries

\* C2: disconnect() never throws; after it the four handles are null, the
\* stream it held is stopped, the data channel and the connection it held
\* are closed, isInitialized is false and retryCount is 0; on a session that
\* is already torn down it changes nothing of the session and its objects.
C2_DisconnectTearsDown ==
  [][DisconnectSession =>
       /\ out' = None
       /\ HandlesNull(session')
       /\ ~session'.isInitialized /\ session'.retryCount = 0
       /\ session.stream # 0 => streamState'[session.stream] = "none"
       /\ session.dataChannel # 0 => dcState'[session.dataChannel] # "open"
       /\ session.peerConnection # 0 => pcState'[session.peerConnection] = "none"
       /\ session = FreshSession =>
            /\ session' = session /\ streamState' = streamState
            /\ pcState' = pcState /\ dcState' = dcState]_vars

\* A session that was initialized is disconnected: its data channel awaits
\* its 'close' event and nothing is in flight.
C2_Witness ==
  /\ session = FreshSession /\ out = None /\ InFlight = {}
  /\ owner = 0 /\ solo = 0
  /\ \E j \in Tasks : dcState[j] = "closing" /\ pcState[j] = "none"
                      /\ streamState[j] = "none"

\* C3: stopStreaming() never throws, stops every track of the active stream,
\* sets the stream handle to null and isInitialized to false; it leaves the
\* connection, the data channel, the audio element and retryCount alone,
\* and without an active stream it only clears isInitialized.
C3_StopStreamingFrame ==
  [][StopStreaming =>
       /\ out' = None
       /\ session'.stream = 0 /\ ~session'.isInitialized
       /\ session.stream # 0 => streamState'[session.stream] = "none"
       /\ session.stream = 0 => streamState' = streamState
       /\ \A i \in Tasks : i # session.stream => streamState'[i] = streamState[i]
       /\ session'.peerConnection = session.peerConnection
       /\ session'.dataChannel = session.dataChannel
       /\ session'.audioElement = session.audioElement
       /\ session'.retryCount = session.retryCount
       /\ pcState' = pcState /\ dcState' = dcState]_vars

\* An initialized session was stopped: its stream is stopped and gone from
\* the record, its connection and data channel are still open.
C3_Witness ==
  \E j \in Tasks :
    /\ session.peerConnection = j /\ session.dataChannel = j
    /\ session.stream = 0 /\ ~session.isInitialized
    /\ pcState[j] = "open" /\ dcState[j] = "open" /\ streamState[j] = "none"
    /\ InFlight = {} /\ out = None

\* The errors initializeSession can raise at the await p when its connection
\* is in place.
C4_Errors(p) ==
  CASE p = "getUserMedia" -> {ErrMic}
    [] p = "exchange" -> {ErrPlatform, ErrHttp}
    [] OTHER -> {ErrPlatform}

\* C4: when an initializeSession() call that no other initializeSession, no
\* disconnect and no handleConnectionFailure overlaps fails at any step, the
\* error raised there reaches its caller, and on return what the call
\* acquired is released (tracks stopped, data channel and connection
\* closed), the four handles are null and isInitialized is false.
C4_FailureTearsDown ==
  [][/\ \A i \in Tasks :
          (solo = i /\ tpc[i] \in InFlightPcs /\ tpc'[i] = "idle"
             /\ ~session'.isInitialized) =>
            /\ HandlesNull(session')
            /\ streamState'[i] = "none" /\ pcState'[i] = "none"
            /\ dcState'[i] # "open"
            /\ \E e \in C4_Errors(tpc[i]) :
                 out' = IF kind[i] = "direct" THEN RejectedWith(e)
                        ELSE Unhandled(e)
     /\ (InitializeSession /\ ~apiKey) =>
            /\ HandlesNull(session') /\ ~session'.isInitialized
            /\ out' = RejectedWith(ErrKey)
            /\ session.stream # 0 => streamState'[session.stream] = "none"
            /\ session.peerConnection # 0 =>
                 pcState'[session.peerConnection] = "none"]_vars

\* A call that nothing overlapped has failed on a non-2xx response: the
\* caller has the error, the call's objects are released.
C4_Witness ==
  \E i \in Tasks :
    /\ solo = i /\ tpc[i] = "idle" /\ out = RejectedWith(ErrHttp)
    /\ dcState[i] = "closing" /\ pcState[i] = "none" /\ streamState[i] = "none"
    /\ session = FreshSession

\* C5: when handleConnectionFailure ends in an error (the retries are
\* exhausted or the retry's initializeSession fails), the hook's call state
\* has a non-null error and isConnected = false.
C5_RetryFailureVisible ==
  [][(out' # None /\ out'[1] = "unhandled rejection") =>
       (callState'.error # NoError /\ ~callState'.isConnected)]_vars

\* C6: at most one peer connection is not closed and at most one captured
\* stream has tracks that are not stopped.
C6_SingleSession ==
  /\ Cardinality({i \in Tasks : pcState[i] # "none"}) <= 1
  /\ Cardinality({i \in Tasks : streamState[i] = "live"}) <= 1

\* C7: there is never more than one initializeSession() in flight.
C7_Sequential == Cardinality(InFlight) <= 1

\* C8: teardown cancels nothing.  disconnect() and stopStreaming() leave
\* every initialization in flight where it is; a capture that resolves after
\* its session record was discarded leaves its stream out of this.session;
\* and a live stream that this.session does not reference is never stopped.
C8_TeardownCancelsNothing ==
  [][/\ tpc' = tpc \/ ~(DisconnectSession \/ StopStreaming)
     /\ \A i \in Tasks :
          (tpc[i] = "getUserMedia" /\ owner # i /\ tpc'[i] = "createOffer") =>
            (session'.stream = session.stream /\ streamState'[i] = "live")
     /\ \A i \in Tasks :
          (streamState[i] = "live" /\ session.stream # i) =>
            streamState'[i] = "live"]_vars

\* After a teardown during capture the initialization has run to its end
\* with no initializeSession called since: this.session was created by the
\* teardown (owner = 0), it is initialized with a connection and without a
\* stream, and the captured stream is live and unreferenced.
C8_Witness ==
  \E i \in Tasks :
    /\ owner = 0 /\ solo = 0 /\ InFlight = {}
    /\ session.isInitialized /\ session.peerConnection = i
    /\ session.stream = 0 /\ streamState[i] = "live"
    /\ \A j \in Tasks \ {i} :
         streamState[j] = "none" /\ pcState[j] = "none" /\ dcState[j] = "none"

\* What the handler must dispatch for each message.
C9_Expected(d) ==
  CASE d = MsgText -> Dispatched("ai-message", "hello")
    [] d = MsgTranscription -> Dispatched("transcription", "hi there")
    [] d = MsgError -> Dispatched("call-error", "boom")
    [] d = MsgTextNoText -> Dispatched("ai-message", Undefined)
    [] OTHER -> None

\* C9: for every message the handler dispatches at most one notification,
\* chosen by the payload's type ('text' -> 'ai-message' with the text,
\* 'transcription' -> 'transcription' with the text, 'error' -> 'call-error'
\* with the error); any other payload and a text that is no JSON dispatch
\* nothing and throw nothing; the session is unchanged.
C9_MessageDispatch ==
  [][\A d \in Messages :
       (\E j \in Tasks : ChannelMessage(j, d)) =>
         /\ out' = C9_Expected(d)
         /\ session' = session /\ streamState' = streamState
         /\ pcState' = pcState /\ dcState' = dcState]_vars

\* An 'error' payload was handled on the data channel of the initialized
\* session.
C9_Witness ==
  /\ out = Dispatched("call-error", "boom")
  /\ session.isInitialized /\ session.dataChannel # 0
  /\ dcState[session.dataChannel] = "open"

\* C10: startStreaming() throws 'Session not initialized' whenever
\* isInitialized is false and returns normally when isInitialized is true and
\* stream and connection are present; it changes no session state.
C10_StartStreamingGuard ==
  [][StartStreaming =>
       /\ ~session.isInitialized => out' = Threw(ErrNotInit)
       /\ (session.isInitialized /\ session.stream # 0
             /\ session.peerConnection # 0) => out' = None
       /\ session' = session /\ streamState' = streamState
       /\ pcState' = pcState /\ dcState' = dcState]_vars

\* startStreaming() has thrown 'Session not initialized' on a session whose
\* stream and connection are present (a data channel event cleared the flag).
C10_Witness ==
  /\ out = Threw(ErrNotInit)
  /\ session.stream # 0 /\ session.peerConnection # 0
  /\ InFlight = {}

\* C11: a startListening execution invokes initializeSession only in the
\* step in which its permission query resolves 'granted', and nothing of the
\* session manager before; when the query resolves otherwise or throws,
\* neither initializeSession nor startStreaming is invoked (the session and
\* its objects are unchanged, the execution ends) and the call state has
\* isConnected = false, sessionId = null and a non-null error.
C11_PermissionFirst ==
  [][/\ StartListening => UNCHANGED svcVars
     /\ \A i \in Tasks :
          /\ (tpc[i] \in {"idle", "perm"} /\ kind'[i] = "hook"
                /\ tpc'[i] \in InFlightPcs) =>
               (tpc[i] = "perm" /\ PermissionGranted(i))
          /\ PermissionRefused(i) =>
               /\ UNCHANGED svcVars
               /\ tpc'[i] = "idle"
               /\ ~callState'.isConnected
               /\ callState'.sessionId = "null"
               /\ callState'.error # NoError]_vars

\* A permission query was refused while a session was connected: the call
\* state has the permission error, the session is as it was.
C11_Witness ==
  /\ callState.error = ErrPermission
  /\ ~callState.isConnected /\ callState.sessionId = "null"
  /\ session.isInitialized /\ session.stream # 0
  /\ \A i \in Tasks : tpc[i] = "idle"

\* The errors initializeSession can throw in a task suspended at the await p.
C12_Errors(p) ==
  CASE p = "getUserMedia" -> {ErrMic}
    [] p = "createOffer" -> {ErrPlatform, ErrNull}
    [] p = "exchange" -> {ErrPlatform, ErrHttp, ErrNull}
    [] OTHER -> {ErrPlatform}

\* C12: startListening and stopListening let no error out to the view.  When
\* initializeSession throws in a startListening execution, the call state's
\* error is the thrown error's message, isConnected is false and sessionId
\* null; when initializeSession succeeds and startStreaming throws, the
\* error is startStreaming's message and isListening is false.
C12_HookCatches ==
  [][/\ (StartListening \/ StopListening) => out' = None
     /\ \A i \in Tasks :
          /\ (tpc[i] = "perm" /\ tpc'[i] # "perm") => out' = None
          /\ (PermissionGranted(i) /\ ~apiKey) =>
               /\ callState'.error = ErrKey
               /\ ~callState'.isConnected /\ callState'.sessionId = "null"
          /\ (kind[i] = "hook" /\ tpc[i] \in InFlightPcs /\ tpc'[i] = "idle") =>
               /\ out' = None
               /\ ~session'.isInitialized =>
                    /\ callState'.error \in C12_Errors(tpc[i])
                    /\ ~callState'.isConnected
                    /\ callState'.sessionId = "null"
               /\ (session'.isInitialized
                     /\ (session'.stream = 0 \/ session'.peerConnection = 0)) =>
                    /\ callState'.error = ErrNoStream
                    /\ ~callState'.isListening
               /\ (session'.isInitialized /\ session'.stream # 0
                     /\ session'.peerConnection # 0) =>
                    /\ callState'.error = NoError
                    /\ callState'.isListening /\ callState'.isConnected]_vars

\* startStreaming has thrown in a startListening execution whose
\* initializeSession succeeded: the call state holds its message, the call
\* is connected and not listening.
C12_Witness ==
  /\ callState.error = ErrNoStream
  /\ callState.isConnected /\ ~callState.isListening
  /\ out = None

\* C13: the hook's disconnect() always tears the session down (the stream
\* held is stopped, the data channel and the connection held are closed, the
\* record is a fresh one) and sets the call state to { isConnected: false,
\* isListening: false, error: null, sessionId: null }, whatever it was.
C13_DisconnectResets ==
  [][Disconnect =>
       /\ callState' = [isConnected |-> FALSE, isListening |-> FALSE,
                        error |-> NoError, sessionId |-> "null"]
       /\ out' = None
       /\ HandlesNull(session')
       /\ ~session'.isInitialized /\ session'.retryCount = 0
       /\ session.stream # 0 => streamState'[session.stream] = "none"
       /\ session.dataChannel # 0 => dcState'[session.dataChannel] # "open"
       /\ session.peerConnection # 0 =>
            pcState'[session.peerConnection] = "none"]_vars

\* A connected call was disconnected: the call state is reset, the session
\* is torn down and its data channel awaits its 'close' event.
C13_Witness ==
  /\ callState = [isConnected |-> FALSE, isListening |-> FALSE,
                  error |-> NoError, sessionId |-> "null"]
  /\ session = FreshSession /\ owner = 0 /\ solo = 0
  /\ \A i \in Tasks : tpc[i] = "idle"
  /\ \E j \in Tasks : dcState[j] = "closing" /\ pcState[j] = "none"
                      /\ streamState[j] = "none"

\* C14: every step in which an initializeSession() execution begins, the
\* one started by handleConnectionFailure after counting a retry included,
\* leaves this.session a fresh record (handles null, isInitialized false,
\* retryCount 0, maxRetries 3), and closes or stops what the previous record
\* held; the session a call has built, when no other initializeSession, no
\* disconnect and no handleConnectionFailure overlapped it, has retryCount 0,
\* maxRetries 3 and no handle that the call did not create.
C14_FreshRecord ==
  [][/\ \A i \in Tasks :
          (tpc[i] = "idle" /\ tpc'[i] = "getUserMedia") =>
            /\ session' = [peerConnection |-> 0, dataChannel |-> 0,
                           stream |-> 0, audioElement |-> 0,
                           isInitialized |-> FALSE, retryCount |-> 0,
                           maxRetries |-> 3]
            /\ session.stream # 0 => streamState'[session.stream] = "none"
            /\ session.dataChannel # 0 =>
                 dcState'[session.dataChannel] # "open"
            /\ session.peerConnection # 0 =>
                 pcState'[session.peerConnection] = "none"
     /\ \A i \in Tasks :
          (solo = i /\ Established(i)) =>
            /\ session'.retryCount = 0 /\ session'.maxRetries = 3
            /\ session'.peerConnection = i /\ session'.dataChannel = i
            /\ session'.audioElement = i /\ session'.stream \in {0, i}]_vars

\* handleConnectionFailure has started a retry on an initialized session:
\* the retry's initializeSession is suspended on capture, this.session is
\* the fresh record it created, the failed connection is closed.
C14_Witness ==
  \E i \in Tasks :
    /\ kind[i] = "retry" /\ tpc[i] = "getUserMedia" /\ owner = i
    /\ session = FreshSession
    /\ \E j \in Tasks \ {i} : dcState[j] = "closing" /\ pcState[j] = "none"
                              /\ streamState[j] = "none" /\ tpc[j] = "idle"

\* C15: whenever the hook's isConnected is true, the session manager's
\* isInitialized is true.
C15_ConnectedImpliesInitialized ==
  callState.isConnected => session.isInitialized

\* C16: whenever isInitialized is true, stream, peerConnection, dataChannel
\* and audioElement are all non-null.
C16_InitializedHasHandles ==
  session.isInitialized =>
    /\ session.stream # 0 /\ session.peerConnection # 0
    /\ session.dataChannel # 0 /\ session.audioElement # 0

\* C17: after an initializeSession() that nothing overlapped has completed
\* successfully, a 'close' or 'error' event of a data channel that is not
\* the current session's (the channel of a session torn down earlier) leaves
\* the current session unchanged: isInitialized stays true.
C17_StaleEventsIgnored ==
  [][\A i, j \in Tasks :
       (/\ solo = i /\ tpc[i] = "idle"
        /\ session.isInitialized /\ session.dataChannel = i
        /\ j # i
        /\ ChannelCloseEvent(j) \/ ChannelErrorEvent(j)) =>
         session' = session]_vars

\* C18: once the user has stopped the call (the stream is released, the
\* connection is still held, nothing is initializing), a capture begins only
\* in a step in which the user calls initializeSession().
C18_StoppedStaysReleased ==
  [][(/\ session.stream = 0 /\ ~session.isInitialized
      /\ session.peerConnection # 0
      /\ pcState[session.peerConnection] = "open"
      /\ InFlight = {}) =>
       \A i \in Tasks : tpc'[i] = "getUserMedia" => InitializeSession]_vars

\* C19: the call state's sessionId is non-null exactly when isConnected is
\* true.
C19_SessionIdIffConnected ==
  (callState.sessionId # "null") <=> callState.isConnected

\* A connected call whose second startListening has failed: the failure has
\* cleared isConnected and sessionId together, isListening is left as it was.
C19_Witness ==
  /\ ~callState.isConnected /\ callState.sessionId = "null"
  /\ callState.isListening /\ callState.error # NoError
  /\ \A i \in Tasks : tpc[i] = "idle"

\* C20: whenever the call state's isListening is true, isConnected is true.
C20_ListeningImpliesConnected ==
  callState.isListening => callState.isConnected

====
